---- MODULE Spec2Model ----
(***************************************************************************)
(* Model of the wareki service (src/app.py, src/helpers.py): conversion    *)
(* between Gregorian years/dates and Japanese era years.                   *)
(*                                                                         *)
(* Text is a sequence of characters.  An ASCII character is the string     *)
(* holding it ("r", "7", " "); any other character is the string naming    *)
(* its code point ("U+4EE4").                                              *)
(***************************************************************************)
EXTENDS Integers, Sequences, FiniteSets, TLC

VARIABLES
    pc,     \* position of the running call chain
    in,     \* the arguments of the call (a record, per specification)
    out,    \* what the first call returned or raised
    out2    \* what the second call returned or raised

vars == <<pc, in, out, out2>>

(***************************************************************************)
(* Characters                                                              *)
(***************************************************************************)

\* <<lowercase, uppercase, full-width lowercase, full-width uppercase>>
Letters == {
    <<"a", "A", "U+FF41", "U+FF21">>, <<"b", "B", "U+FF42", "U+FF22">>,
    <<"c", "C", "U+FF43", "U+FF23">>, <<"d", "D", "U+FF44", "U+FF24">>,
    <<"e", "E", "U+FF45", "U+FF25">>, <<"f", "F", "U+FF46", "U+FF26">>,
    <<"g", "G", "U+FF47", "U+FF27">>, <<"h", "H", "U+FF48", "U+FF28">>,
    <<"i", "I", "U+FF49", "U+FF29">>, <<"j", "J", "U+FF4A", "U+FF2A">>,
    <<"k", "K", "U+FF4B", "U+FF2B">>, <<"l", "L", "U+FF4C", "U+FF2C">>,
    <<"m", "M", "U+FF4D", "U+FF2D">>, <<"n", "N", "U+FF4E", "U+FF2E">>,
    <<"o", "O", "U+FF4F", "U+FF2F">>, <<"p", "P", "U+FF50", "U+FF30">>,
    <<"q", "Q", "U+FF51", "U+FF31">>, <<"r", "R", "U+FF52", "U+FF32">>,
    <<"s", "S", "U+FF53", "U+FF33">>, <<"t", "T", "U+FF54", "U+FF34">>,
    <<"u", "U", "U+FF55", "U+FF35">>, <<"v", "V", "U+FF56", "U+FF36">>,
    <<"w", "W", "U+FF57", "U+FF37">>, <<"x", "X", "U+FF58", "U+FF38">>,
    <<"y", "Y", "U+FF59", "U+FF39">>, <<"z", "Z", "U+FF5A", "U+FF3A">> }

\* <<ASCII digit, full-width digit>>
Digits == {
    <<"0", "U+FF10">>, <<"1", "U+FF11">>, <<"2", "U+FF12">>, <<"3", "U+FF13">>,
    <<"4", "U+FF14">>, <<"5", "U+FF15">>, <<"6", "U+FF16">>, <<"7", "U+FF17">>,
    <<"8", "U+FF18">>, <<"9", "U+FF19">> }

\* <<lowercase, uppercase>> of the accented Latin letters the model uses:
\* the letters with macron, and a/e/i/o/u with circumflex
Accented == {
    <<"U+0101", "U+0100">>, <<"U+0113", "U+0112">>, <<"U+1E21", "U+1E20">>,
    <<"U+012B", "U+012A">>, <<"U+014D", "U+014C">>, <<"U+016B", "U+016A">>,
    <<"U+0233", "U+0232">>, <<"U+00E2", "U+00C2">>, <<"U+00EA", "U+00CA">>,
    <<"U+00EE", "U+00CE">>, <<"U+00F4", "U+00D4">>, <<"U+00FB", "U+00DB">> }

\* <<base letter, combining mark, precomposed letter>>; U+0304 is the
\* combining macron
Compositions == {
    <<"a", "U+0304", "U+0101">>, <<"A", "U+0304", "U+0100">>,
    <<"e", "U+0304", "U+0113">>, <<"E", "U+0304", "U+0112">>,
    <<"g", "U+0304", "U+1E21">>, <<"G", "U+0304", "U+1E20">>,
    <<"i", "U+0304", "U+012B">>, <<"I", "U+0304", "U+012A">>,
    <<"o", "U+0304", "U+014D">>, <<"O", "U+0304", "U+014C">>,
    <<"u", "U+0304", "U+016B">>, <<"U", "U+0304", "U+016A">>,
    <<"y", "U+0304", "U+0233">>, <<"Y", "U+0304", "U+0232">> }

\* the characters str.strip() and the regex class \s take for whitespace;
\* U+3000 is the ideographic space
WhiteSpace == {" ", "\t", "\n", "U+3000"}

AsciiLetters == {l[1] : l \in Letters} \cup {l[2] : l \in Letters}
AsciiDigits == {d[1] : d \in Digits}
FullWidthDigits == {d[2] : d \in Digits}
\* U+0667 is ARABIC-INDIC DIGIT SEVEN: a decimal digit for \d that is
\* neither ASCII nor full-width
UnicodeDigits == AsciiDigits \cup FullWidthDigits \cup {"U+0667"}

\* kanji and kana of the era names, the year-one marker and the year suffix
Gan == "U+5143"
Nen == "U+5E74"

(***************************************************************************)
(* Text normalizer                                                         *)
(***************************************************************************)

\* str.strip(): drop leading and trailing whitespace
RECURSIVE LStrip(_)
LStrip(s) ==
    IF s # <<>> /\ Head(s) \in WhiteSpace THEN LStrip(Tail(s)) ELSE s

RECURSIVE RStrip(_)
RStrip(s) ==
    IF s # <<>> /\ s[Len(s)] \in WhiteSpace
    THEN RStrip(SubSeq(s, 1, Len(s) - 1))
    ELSE s

Strip(s) == RStrip(LStrip(s))

\* compatibility decomposition of one character: full-width forms and the
\* ideographic space have ASCII compatibility equivalents
Compat(c) ==
    IF \E l \in Letters : l[3] = c THEN (CHOOSE l \in Letters : l[3] = c)[1]
    ELSE IF \E l \in Letters : l[4] = c THEN (CHOOSE l \in Letters : l[4] = c)[2]
    ELSE IF \E d \in Digits : d[2] = c THEN (CHOOSE d \in Digits : d[2] = c)[1]
    ELSE IF c = "U+3000" THEN " "
    ELSE c

\* canonical composition: a base letter followed by a combining mark
\* becomes the precomposed letter
RECURSIVE Compose(_)
Compose(s) ==
    IF Len(s) < 2 THEN s
    ELSE IF \E k \in Compositions : k[1] = s[1] /\ k[2] = s[2]
    THEN <<(CHOOSE k \in Compositions : k[1] = s[1] /\ k[2] = s[2])[3]>>
             \o Compose(SubSeq(s, 3, Len(s)))
    ELSE <<s[1]>> \o Compose(Tail(s))

\* unicodedata.normalize("NFKC", s)
NFKC(s) == Compose([i \in 1..Len(s) |-> Compat(s[i])])

\* str.lower() of one character
LowerChar(c) ==
    IF \E l \in Letters : l[2] = c THEN (CHOOSE l \in Letters : l[2] = c)[1]
    ELSE IF \E l \in Letters : l[4] = c THEN (CHOOSE l \in Letters : l[4] = c)[3]
    ELSE IF \E a \in Accented : a[2] = c THEN (CHOOSE a \in Accented : a[2] = c)[1]
    ELSE c

\* str.lower() left out
Lower_Missing(s) == s

Lower(s) == [i \in 1..Len(s) |-> LowerChar(s[i])]

\* the chain of str.replace calls of _normalize_era_key, on one character
FoldDiacritic(c) ==
    CASE c = "U+014D" -> "o"
      [] c = "U+016B" -> "u"
      [] c = "U+00E2" -> "a"
      [] c = "U+00EA" -> "e"
      [] c = "U+00EE" -> "i"
      [] c = "U+00F4" -> "o"
      [] c = "U+00FB" -> "u"
      [] OTHER -> c

_normalize_text(s) == NFKC(Strip(s))

\* the argument None (no text holds this character)
NoneText == <<"None">>

_normalize_era_key(s) ==
    IF s = NoneText THEN <<>>
    ELSE LET low == Lower(_normalize_text(s))
         IN  [i \in 1..Len(low) |-> FoldDiacritic(low[i])]

(***************************************************************************)
(* Era table and alias index                                               *)
(***************************************************************************)

\* newest first; ja is the kanji name, start is <<year, month, day>>
ERAS == <<
    [code |-> "R", en |-> <<"R","e","i","w","a">>,
     ja |-> <<"U+4EE4","U+548C">>, start |-> <<2019, 5, 1>>],
    [code |-> "H", en |-> <<"H","e","i","s","e","i">>,
     ja |-> <<"U+5E73","U+6210">>, start |-> <<1989, 1, 8>>],
    [code |-> "S", en |-> <<"S","h","o","w","a">>,
     ja |-> <<"U+662D","U+548C">>, start |-> <<1926, 12, 25>>],
    [code |-> "T", en |-> <<"T","a","i","s","h","o">>,
     ja |-> <<"U+5927","U+6B63">>, start |-> <<1912, 7, 30>>],
    [code |-> "M", en |-> <<"M","e","i","j","i">>,
     ja |-> <<"U+660E","U+6CBB">>, start |-> <<1868, 1, 25>>] >>

MIN_YEAR == 1868

\* the dictionary as its set of <<key, code>> entries, in source order:
\* code letter, romaji spellings, kana, kanji
ERA_ALIASES == {
    <<<<"r">>, "R">>, <<<<"r","e","i","w","a">>, "R">>,
    <<<<"U+308C","U+3044","U+308F">>, "R">>, <<<<"U+4EE4","U+548C">>, "R">>,
    <<<<"h">>, "H">>, <<<<"h","e","i","s","e","i">>, "H">>,
    <<<<"U+3078","U+3044","U+305B","U+3044">>, "H">>, <<<<"U+5E73","U+6210">>, "H">>,
    <<<<"s">>, "S">>, <<<<"s","h","o","w","a">>, "S">>,
    <<<<"s","h","o","u","w","a">>, "S">>, <<<<"s","h","U+014D","w","a">>, "S">>,
    <<<<"U+3057","U+3087","U+3046","U+308F">>, "S">>, <<<<"U+662D","U+548C">>, "S">>,
    <<<<"t">>, "T">>, <<<<"t","a","i","s","h","o">>, "T">>,
    <<<<"t","a","i","s","h","o","u">>, "T">>, <<<<"t","a","i","s","h","U+014D">>, "T">>,
    <<<<"U+305F","U+3044","U+3057","U+3087","U+3046">>, "T">>, <<<<"U+5927","U+6B63">>, "T">>,
    <<<<"m">>, "M">>, <<<<"m","e","i","j","i">>, "M">>,
    <<<<"U+3081","U+3044","U+3058">>, "M">>, <<<<"U+660E","U+6CBB">>, "M">> }

AliasKeys == {a[1] : a \in ERA_ALIASES}

\* Python's None, as a returned era and as a returned code
None == [none |-> TRUE]
NoCode == "None"

\* ERA_ALIASES.get(key): the code, or None
AliasGet(key) ==
    IF key \in AliasKeys THEN (CHOOSE a \in ERA_ALIASES : a[1] = key)[2] ELSE NoCode

\* next(e for e in ERAS if e[0] == code)
EraByCode(code) ==
    ERAS[CHOOSE i \in 1..Len(ERAS) :
            ERAS[i].code = code /\ \A j \in 1..(i - 1) : ERAS[j].code # code]

\* the fallback loop of _era_lookup from position i of ERAS on
RECURSIVE ScanNames(_, _)
ScanNames(key, i) ==
    IF i > Len(ERAS) THEN None
    ELSE IF _normalize_era_key(ERAS[i].en) = key \/ _normalize_era_key(ERAS[i].ja) = key
    THEN ERAS[i]
    ELSE ScanNames(key, i + 1)

_era_lookup(era_in) ==
    LET key == _normalize_era_key(era_in)
        code == AliasGet(key)
    IN  IF code # NoCode THEN EraByCode(code) ELSE ScanNames(key, 1)

(***************************************************************************)
(* Dates and numbers as text                                               *)
(***************************************************************************)

DigitChars == <<"0", "1", "2", "3", "4", "5", "6", "7", "8", "9">>

DigitVal(c) == (CHOOSE i \in 1..Len(DigitChars) : DigitChars[i] = c) - 1

\* the decimal digits of n >= 0, zero-padded to at least width characters
RECURSIVE FormatInt(_, _)
FormatInt(n, width) ==
    IF n < 10 /\ width <= 1 THEN <<DigitChars[n + 1]>>
    ELSE FormatInt(n \div 10, width - 1) \o <<DigitChars[(n % 10) + 1]>>

\* the value of a run of ASCII digits
RECURSIVE DigitsToInt(_)
DigitsToInt(s) ==
    IF s = <<>> THEN 0
    ELSE 10 * DigitsToInt(SubSeq(s, 1, Len(s) - 1)) + DigitVal(s[Len(s)])

IsLeap(y) == (y % 4 = 0 /\ y % 100 # 0) \/ y % 400 = 0

DaysInMonth(y, m) ==
    IF m = 2 THEN (IF IsLeap(y) THEN 29 ELSE 28)
    ELSE IF m \in {4, 6, 9, 11} THEN 30
    ELSE 31

\* the values datetime.date takes: <<year, month, day>> of the calendar
IsDate(d) ==
    /\ d[1] \in 1..9999
    /\ d[2] \in 1..12
    /\ d[3] \in 1..DaysInMonth(d[1], d[2])

\* the start date itself left to the older era
DateGE_Strict(a, b) ==
    \/ a[1] > b[1]
    \/ a[1] = b[1] /\ a[2] > b[2]
    \/ a[1] = b[1] /\ a[2] = b[2] /\ a[3] > b[3]

\* dt >= date(sy, sm, sd)
DateGE(a, b) ==
    \/ a[1] > b[1]
    \/ a[1] = b[1] /\ a[2] > b[2]
    \/ a[1] = b[1] /\ a[2] = b[2] /\ a[3] >= b[3]

\* f"{sy:04d}-{sm:02d}-{sd:02d}" and date.isoformat()
IsoFormat(d) ==
    FormatInt(d[1], 4) \o <<"-">> \o FormatInt(d[2], 2) \o <<"-">> \o FormatInt(d[3], 2)

(***************************************************************************)
(* Conversions                                                             *)
(***************************************************************************)

\* raise ValueError(message); a message is the fixed text of the source's
\* message, without the value an f-string puts into it
Raise(message) == [ok |-> FALSE, error |-> message]

\* era_year computed without the + 1
RECURSIVE YearScan_OffByOne(_, _)
YearScan_OffByOne(year, i) ==
    IF i > Len(ERAS) THEN Raise("No matching era found.")
    ELSE IF year >= ERAS[i].start[1]
    THEN [ok |-> TRUE,
          era_en |-> ERAS[i].en,
          era_ja |-> ERAS[i].ja,
          era_year |-> year - ERAS[i].start[1],
          year |-> year,
          method |-> "year-only",
          era_start_date |-> IsoFormat(ERAS[i].start)]
    ELSE YearScan_OffByOne(year, i + 1)

\* the boundary year left to the older era
RECURSIVE YearScan_StrictBoundary(_, _)
YearScan_StrictBoundary(year, i) ==
    IF i > Len(ERAS) THEN Raise("No matching era found.")
    ELSE IF year > ERAS[i].start[1]
    THEN [ok |-> TRUE,
          era_en |-> ERAS[i].en,
          era_ja |-> ERAS[i].ja,
          era_year |-> year - ERAS[i].start[1] + 1,
          year |-> year,
          method |-> "year-only",
          era_start_date |-> IsoFormat(ERAS[i].start)]
    ELSE YearScan_StrictBoundary(year, i + 1)

\* the loop of from_western_year_only from position i of ERAS on
RECURSIVE YearScan(_, _)
YearScan(year, i) ==
    IF i > Len(ERAS) THEN Raise("No matching era found.")
    ELSE IF year >= ERAS[i].start[1]
    THEN [ok |-> TRUE,
          era_en |-> ERAS[i].en,
          era_ja |-> ERAS[i].ja,
          era_year |-> year - ERAS[i].start[1] + 1,
          year |-> year,
          method |-> "year-only",
          era_start_date |-> IsoFormat(ERAS[i].start)]
    ELSE YearScan(year, i + 1)

from_western_year_only(year) ==
    IF year < MIN_YEAR THEN Raise("Year must be >= MIN_YEAR.")
    ELSE YearScan(year, 1)

\* eras chosen by the year alone
RECURSIVE DateScan_YearOnly(_, _)
DateScan_YearOnly(dt, i) ==
    IF i > Len(ERAS) THEN Raise("No matching era found.")
    ELSE IF dt[1] >= ERAS[i].start[1]
    THEN [ok |-> TRUE,
          era_en |-> ERAS[i].en,
          era_ja |-> ERAS[i].ja,
          era_year |-> dt[1] - ERAS[i].start[1] + 1,
          year |-> dt[1],
          method |-> "date",
          era_start_date |-> IsoFormat(ERAS[i].start),
          date_used |-> IsoFormat(dt)]
    ELSE DateScan_YearOnly(dt, i + 1)

\* the loop of from_western_date from position i of ERAS on
RECURSIVE DateScan(_, _)
DateScan(dt, i) ==
    IF i > Len(ERAS) THEN Raise("No matching era found.")
    ELSE IF DateGE(dt, ERAS[i].start)
    THEN [ok |-> TRUE,
          era_en |-> ERAS[i].en,
          era_ja |-> ERAS[i].ja,
          era_year |-> dt[1] - ERAS[i].start[1] + 1,
          year |-> dt[1],
          method |-> "date",
          era_start_date |-> IsoFormat(ERAS[i].start),
          date_used |-> IsoFormat(dt)]
    ELSE DateScan(dt, i + 1)

from_western_date(dt) ==
    IF dt[1] < MIN_YEAR THEN Raise("Year must be >= MIN_YEAR.")
    ELSE DateScan(dt, 1)

\* the era resolved before era_year is checked
to_western_LookupFirst(era_input, era_year) ==
    LET era == _era_lookup(era_input)
    IN  IF era = None THEN Raise("Unknown era.")
        ELSE IF era_year < 1 THEN Raise("Era year must be >= 1.")
        ELSE [ok |-> TRUE,
              era_en |-> era.en,
              era_ja |-> era.ja,
              era_year |-> era_year,
              year |-> era.start[1] + era_year - 1,
              method |-> "inverse",
              era_start_date |-> IsoFormat(era.start)]

\* the western year computed without the - 1
to_western_OffByOne(era_input, era_year) ==
    IF era_year < 1 THEN Raise("Era year must be >= 1.")
    ELSE LET era == _era_lookup(era_input)
         IN  IF era = None THEN Raise("Unknown era.")
             ELSE [ok |-> TRUE,
                   era_en |-> era.en,
                   era_ja |-> era.ja,
                   era_year |-> era_year,
                   year |-> era.start[1] + era_year,
                   method |-> "inverse",
                   era_start_date |-> IsoFormat(era.start)]

to_western(era_input, era_year) ==
    IF era_year < 1 THEN Raise("Era year must be >= 1.")
    ELSE LET era == _era_lookup(era_input)
         IN  IF era = None THEN Raise("Unknown era.")
             ELSE LET western == era.start[1] + era_year - 1
                  IN  IF western < MIN_YEAR THEN Raise("Resulting year is < MIN_YEAR.")
                      ELSE [ok |-> TRUE,
                            era_en |-> era.en,
                            era_ja |-> era.ja,
                            era_year |-> era_year,
                            year |-> western,
                            method |-> "inverse",
                            era_start_date |-> IsoFormat(era.start)]

(***************************************************************************)
(* Combined era+year text parser                                           *)
(***************************************************************************)

AllIn(s, class) == \A i \in 1..Len(s) : s[i] \in class
NoneIn(s, class) == \A i \in 1..Len(s) : s[i] \notin class

\* the regex tail \s*<Nen>?\s*$ matches all of s
TailMatches(s) ==
    \E i \in 0..Len(s) :
        /\ AllIn(SubSeq(s, 1, i), WhiteSpace)
        /\ \/ i = Len(s)
           \/ s[i + 1] = Nen /\ AllIn(SubSeq(s, i + 2, Len(s)), WhiteSpace)

\* the year token (<Gan>|[0-9 and full-width 0-9]+)
IsYearToken(s) ==
    \/ s = <<Gan>>
    \/ s # <<>> /\ AllIn(s, AsciiDigits \cup FullWidthDigits)

\* every way ^([^\d0-9]+?)\s*(<Gan>|[0-9...]+)\s*<Nen>?\s*$ matches t:
\* group 1 is t[1..k], the \s* after it t[k+1..a], group 2 t[a+1..b]
NativeSplits(t) ==
    {sp \in (1..Len(t)) \X (1..Len(t)) \X (1..Len(t)) :
        /\ sp[1] <= sp[2] /\ sp[2] < sp[3]
        /\ NoneIn(SubSeq(t, 1, sp[1]), UnicodeDigits)
        /\ AllIn(SubSeq(t, sp[1] + 1, sp[2]), WhiteSpace)
        /\ IsYearToken(SubSeq(t, sp[2] + 1, sp[3]))
        /\ TailMatches(SubSeq(t, sp[3] + 1, Len(t)))}

\* re.match of the native form: the lazy group 1 takes the shortest prefix
\* that lets the rest match, the greedy year token the longest digit run
NativeMatch(t) ==
    LET splits == NativeSplits(t)
    IN  IF splits = {} THEN None
        ELSE LET sp == CHOOSE x \in splits :
                        \A y \in splits :
                            x[1] < y[1] \/ (x[1] = y[1] /\ x[3] >= y[3])
             IN  [group1 |-> SubSeq(t, 1, sp[1]),
                  group2 |-> SubSeq(t, sp[2] + 1, sp[3])]

\* every way ^([A-Za-z]+)\s*([0-9...]+)\s*$ matches t
RomajiSplits(t) ==
    {sp \in (1..Len(t)) \X (1..Len(t)) \X (1..Len(t)) :
        /\ sp[1] <= sp[2] /\ sp[2] < sp[3]
        /\ AllIn(SubSeq(t, 1, sp[1]), AsciiLetters)
        /\ AllIn(SubSeq(t, sp[1] + 1, sp[2]), WhiteSpace)
        /\ SubSeq(t, sp[2] + 1, sp[3]) # <<>>
        /\ AllIn(SubSeq(t, sp[2] + 1, sp[3]), AsciiDigits \cup FullWidthDigits)
        /\ AllIn(SubSeq(t, sp[3] + 1, Len(t)), WhiteSpace)}

\* re.match of the romaji form: both groups are greedy
RomajiMatch(t) ==
    LET splits == RomajiSplits(t)
    IN  IF splits = {} THEN None
        ELSE LET sp == CHOOSE x \in splits :
                        \A y \in splits :
                            x[1] > y[1] \/ (x[1] = y[1] /\ x[3] >= y[3])
             IN  [group1 |-> SubSeq(t, 1, sp[1]),
                  group2 |-> SubSeq(t, sp[2] + 1, sp[3])]

\* the year-one marker raises in int() instead of counting as 1
parse_era_year_text_NoGan(text) ==
    IF text = <<>> \/ text = NoneText THEN Raise("Empty input for era_year_text.")
    ELSE LET t == _normalize_text(text)
             m == NativeMatch(t)
         IN  IF m # None /\ m.group2 # <<Gan>>
             THEN [ok |-> TRUE, era_part |-> m.group1,
                   era_year |-> DigitsToInt(_normalize_text(m.group2))]
             ELSE Raise("Cannot parse era_year_text.")

parse_era_year_text(text) ==
    IF text = <<>> \/ text = NoneText THEN Raise("Empty input for era_year_text.")
    ELSE LET t == _normalize_text(text)
             m == NativeMatch(t)
             m2 == RomajiMatch(t)
         IN  IF m # None
             THEN [ok |-> TRUE,
                   era_part |-> m.group1,
                   era_year |-> IF m.group2 = <<Gan>> THEN 1
                                ELSE DigitsToInt(_normalize_text(m.group2))]
             ELSE IF m2 # None
             THEN [ok |-> TRUE,
                   era_part |-> m2.group1,
                   era_year |-> DigitsToInt(_normalize_text(m2.group2))]
             ELSE Raise("Cannot parse era_year_text.")

(***************************************************************************)
(* Output formatter, response envelopes and the /convert handler           *)
(***************************************************************************)

Empty == [k \in {} |-> k]

\* the value of a decimal digit of any script the model holds
UnicodeDigitVal(c) ==
    IF c = "U+0667" THEN 7
    ELSE DigitVal((CHOOSE d \in Digits : d[1] = c \/ d[2] = c)[1])

RECURSIVE UnicodeDigitsToInt(_)
UnicodeDigitsToInt(s) ==
    IF s = <<>> THEN 0
    ELSE 10 * UnicodeDigitsToInt(SubSeq(s, 1, Len(s) - 1)) + UnicodeDigitVal(s[Len(s)])

\* int(text) of a request field: surrounding whitespace, an optional sign,
\* then decimal digits of any script (digit-group underscores are left out)
PyInt(text) ==
    LET s == Strip(text)
        signed == s # <<>> /\ s[1] \in {"+", "-"}
        digits == IF signed THEN Tail(s) ELSE s
    IN  IF digits # <<>> /\ AllIn(digits, UnicodeDigits)
        THEN [ok |-> TRUE,
              value |-> IF signed /\ s[1] = "-" THEN 0 - UnicodeDigitsToInt(digits)
                        ELSE UnicodeDigitsToInt(digits)]
        ELSE Raise("invalid literal for int().")

NonZeroAscii == AsciiDigits \ {"0"}

\* the month token of %m: 1[0-2]|0[1-9]|[1-9]
IsMonthToken(s) ==
    \/ Len(s) = 2 /\ s[1] = "1" /\ s[2] \in {"0", "1", "2"}
    \/ Len(s) = 2 /\ s[1] = "0" /\ s[2] \in NonZeroAscii
    \/ Len(s) = 1 /\ s[1] \in NonZeroAscii

\* the day token of %d: 3[01]|[12]\d|0[1-9]|[1-9]| [1-9]
IsDayToken(s) ==
    \/ Len(s) = 2 /\ s[1] = "3" /\ s[2] \in {"0", "1"}
    \/ Len(s) = 2 /\ s[1] \in {"1", "2"} /\ s[2] \in UnicodeDigits
    \/ Len(s) = 2 /\ s[1] \in {"0", " "} /\ s[2] \in NonZeroAscii
    \/ Len(s) = 1 /\ s[1] \in NonZeroAscii

\* datetime.strptime(text, "%Y-%m-%d").date(): the whole text is
\* \d\d\d\d-<month>-<day> and names a date of the calendar
StrpDate(text) ==
    LET fits == {lm \in 1..2 :
                    /\ Len(text) >= 7 + lm
                    /\ AllIn(SubSeq(text, 1, 4), UnicodeDigits)
                    /\ text[5] = "-"
                    /\ IsMonthToken(SubSeq(text, 6, 5 + lm))
                    /\ text[6 + lm] = "-"
                    /\ IsDayToken(SubSeq(text, 7 + lm, Len(text)))}
    IN  IF fits = {} THEN Raise("time data does not match format.")
        ELSE LET lm == CHOOSE x \in fits : TRUE
                 dtok == SubSeq(text, 7 + lm, Len(text))
                 d == <<UnicodeDigitsToInt(SubSeq(text, 1, 4)),
                        UnicodeDigitsToInt(SubSeq(text, 6, 5 + lm)),
                        UnicodeDigitsToInt(IF dtok[1] = " " THEN Tail(dtok) ELSE dtok)>>
             IN  IF IsDate(d) THEN [ok |-> TRUE, date |-> d]
                 ELSE Raise("date value out of range.")

\* str(n) of an integer
IntText(n) == IF n < 0 THEN <<"-">> \o FormatInt(0 - n, 1) ELSE FormatInt(n, 1)

format_output(conv, lang) ==
    LET lang_ == Lower(IF lang = NoneText \/ lang = <<>> THEN <<"e", "n">> ELSE lang)
        era_label_en == conv.era_en \o <<" ">> \o IntText(conv.era_year)
        era_label_ja == conv.era_ja \o IntText(conv.era_year) \o <<Nen>>
    IN  [western_text |-> IntText(conv.year),
         japanese_text |-> IF lang_ = <<"j", "a">> THEN era_label_ja ELSE era_label_en,
         era_en |-> conv.era_en,
         era_ja |-> conv.era_ja,
         era_year |-> conv.era_year,
         year |-> conv.year]
        @@ (IF "date_used" \in DOMAIN conv
            THEN [date_used |-> conv.date_used] ELSE Empty)
        @@ (IF "era_start_date" \in DOMAIN conv
            THEN [era_start_date |-> conv.era_start_date] ELSE Empty)
        @@ (IF "method" \in DOMAIN conv
            THEN [method |-> conv.method] ELSE Empty)

rest_response(obj) == [status |-> "OK", result |-> obj, http |-> 200]

rest_error(message) == [status |-> "ERROR", result |-> message, http |-> 400]

\* a conversion result formatted into the success envelope, a raised
\* ValueError into the error envelope with its message
Respond(conv, lang) ==
    IF conv.ok THEN rest_response(format_output(conv, lang))
    ELSE rest_error(conv.error)

\* a field is truthy when it is present and not the empty string
Truthy(v) == v # NoneText /\ v # <<>>

\* str(data.get("now", "")).lower() in ("true", "1", "yes")
NowRequested(v) ==
    Lower(v) \in {<<"t","r","u","e">>, <<"1">>, <<"y","e","s">>}

\* branch 3 of convert: year, or era and era_year
ConvertYearOrEra(data, lang) ==
    LET year == IF data.year \notin {NoneText, <<>>} THEN PyInt(data.year) ELSE None
        era == data.era
        era_year == IF data.era_year \notin {NoneText, <<>>}
                    THEN PyInt(data.era_year) ELSE None
    IN  IF year # None /\ ~year.ok THEN rest_error(year.error)
        ELSE IF era_year # None /\ ~era_year.ok THEN rest_error(era_year.error)
        ELSE IF year # None /\ era = NoneText /\ era_year = None
        THEN Respond(from_western_year_only(year.value), lang)
        ELSE IF era # NoneText /\ era_year # None /\ year = None
        THEN Respond(to_western(era, era_year.value), lang)
        ELSE rest_error("Provide either year/date/now OR (era and era_year) OR era_year_text, but not both.")

\* the handler of /convert on the request fields data (text values, as a
\* query string gives them; a missing field is None), with
\* date.today() = today
convert(data, today) ==
    LET lang == IF data.lang = NoneText THEN <<"e", "n">> ELSE data.lang
    IN  IF Truthy(data.era_year_text)
        THEN LET parsed == parse_era_year_text(data.era_year_text)
             IN  IF parsed.ok
                 THEN Respond(to_western(parsed.era_part, parsed.era_year), lang)
                 ELSE rest_error(parsed.error)
        ELSE IF data.now # NoneText /\ NowRequested(data.now)
        THEN Respond(from_western_date(today), lang)
        ELSE IF Truthy(data.date)
        THEN LET dt == StrpDate(data.date)
             IN  IF dt.ok THEN Respond(from_western_date(dt.date), lang)
                 ELSE rest_error("Invalid 'date'. Use YYYY-MM-DD.")
        ELSE ConvertYearOrEra(data, lang)

(***************************************************************************)
(* Specification SpecLookup: _era_lookup applied to spellings of the era   *)
(* names in every case, width and padding, and to other texts              *)
(***************************************************************************)

MaxRestyled == 1
MaxPad == 1

\* <<text, era code>>: the spellings of each era: code letter, romaji
\* (plain, with "ou", with a precomposed macron, with a combining macron),
\* kana, kanji
Spellings ==
    ERA_ALIASES \cup {
        <<<<"s","h","o","U+0304","w","a">>, "S">>,
        <<<<"t","a","i","s","h","o","U+0304">>, "T">> }

\* romaji spellings with a circumflex or a macron on a vowel
AccentedSpellings == {
    <<<<"s","h","U+00F4","w","a">>, "S">>,
    <<<<"t","a","i","s","h","U+00F4">>, "T">>,
    <<<<"r","e","U+00EE","w","a">>, "R">>,
    <<<<"h","U+00EA","i","s","e","i">>, "H">>,
    <<<<"m","e","i","j","U+00EE">>, "M">>,
    <<<<"t","a","i","s","h","o","U+016B">>, "T">>,
    <<<<"s","h","o","U+00FB","w","a">>, "S">> }

\* texts that spell no era
OtherTexts == {
    <<"x">>, <<>>, <<"r","e">>, <<"r","r">>, <<"r","e","i","w","a","x">>,
    <<"r","e","i"," ","w","a">>, <<"s","h","o","o","w","a">>,
    <<"s","h","u","w","a">>, <<"r","U+0113","i","w","a">>,
    <<"r","e","i","w","a","7">>, <<"U+4EE4">>, <<"U+548C","U+4EE4">>,
    <<"U+308C","U+3044">>, <<"k","e","i","o">> }

Styles == {"lower", "upper", "wide", "wideupper"}

\* one character of a lowercase spelling in the given case and width
StyleChar(c, style) ==
    IF \E l \in Letters : l[1] = c
    THEN LET l == CHOOSE l \in Letters : l[1] = c
         IN  CASE style = "lower" -> l[1]
               [] style = "upper" -> l[2]
               [] style = "wide" -> l[3]
               [] style = "wideupper" -> l[4]
    ELSE IF (\E a \in Accented : a[1] = c) /\ style \in {"upper", "wideupper"}
    THEN (CHOOSE a \in Accented : a[1] = c)[2]
    ELSE c

\* the positions in S are written in style sigma, the others in style beta
Render(base, beta, sigma, S) ==
    [i \in 1..Len(base) |-> StyleChar(base[i], IF i \in S THEN sigma ELSE beta)]

PadLeft(k) == SubSeq(<<" ", "U+3000", "\t", "\n">>, 1, k)
PadRight(k) == SubSeq(<<"U+3000", " ", "\n", "\t">>, 1, k)

\* the texts rendered from one base spelling
Renderings(base) ==
    { PadLeft(l) \o Render(base, beta, sigma, S) \o PadRight(r) :
        <<beta, sigma, S, l, r>> \in
            Styles \X Styles
                \X {S \in SUBSET (1..Len(base)) : Cardinality(S) <= MaxRestyled}
                \X (0..MaxPad) \X (0..MaxPad) }

\* in.era is the era the spelling is of ("none": of no era); in.listed says
\* whether it is a code, romaji (plain, "ou" or macron), kana or kanji
\* spelling
LookupInit ==
    /\ pc = "start"
    /\ \E sp \in Spellings \cup AccentedSpellings
                    \cup {<<t, "none">> : t \in OtherTexts} :
        \E text \in Renderings(sp[1]) :
            in = [text |-> text, era |-> sp[2], listed |-> sp \in Spellings]
    /\ out = None
    /\ out2 = None

\* out.key is the local key of _era_lookup, out.era what it returns
CallEraLookup ==
    /\ pc = "start"
    /\ pc' = "done"
    /\ out' = [key |-> _normalize_era_key(in.text), era |-> _era_lookup(in.text)]
    /\ UNCHANGED <<in, out2>>

LookupNext == CallEraLookup

SpecLookup == LookupInit /\ [][LookupNext]_vars

\* C4 as stated: every listed spelling (code, romaji plain / "ou" / macron,
\* kana, kanji; any case, width and padding) resolves to its era, and every
\* text that is not such a spelling resolves to no era
C4_ListedSpellingsOnly ==
    pc = "done" =>
        IF in.listed
        THEN out.era # None /\ out.era.code = in.era
        ELSE out.era = None

\* C4, amended: every spelling of an era (the listed ones, and also the
\* romaji spellings with a circumflex or macron vowel that folds onto them),
\* in any case, width and padding, resolves to the record of that era in
\* ERAS; the key looked up has at most one code; a text that spells no era
\* resolves to no era
C4_AliasEquivalence ==
    pc = "done" =>
        /\ Cardinality({a \in ERA_ALIASES : a[1] = out.key}) <= 1
        /\ IF in.era # "none"
           THEN /\ out.era # None
                /\ out.era.code = in.era
                /\ \E i \in 1..Len(ERAS) : ERAS[i] = out.era
           ELSE out.era = None

\* a padded, mixed-case, mixed-width " Reiwa" (full-width capital R)
\* resolved to Reiwa
C4_Witness ==
    /\ pc = "done"
    /\ in.text = <<" ", "U+FF32", "e", "i", "w", "a">>
    /\ in.listed
    /\ out.era # None
    /\ out.era.code = "R"

\* C9: every key of ERA_ALIASES is in normalized form (looking the key
\* itself up computes that same key), and every value is the code of an era
\* of ERAS
C9_KeysNormalized ==
    pc = "done" /\ in.text \in AliasKeys =>
        /\ out.key = in.text
        /\ \A a \in ERA_ALIASES : \E i \in 1..Len(ERAS) : ERAS[i].code = a[2]

(***************************************************************************)
(* Specification SpecYear: from_western_year_only, then to_western on the  *)
(* era and era year it returned                                            *)
(***************************************************************************)

MaxYear == 2030
YearsBelow == 3

\* the ways to name the era of a result: English name, kanji name, code
Designators(r) ==
    {r.era_en, r.era_ja} \cup
        {<<ERAS[i].code>> : i \in {j \in 1..Len(ERAS) : ERAS[j].en = r.era_en}}

YearInit ==
    /\ pc = "start"
    /\ \E y \in (MIN_YEAR - YearsBelow)..MaxYear : in = [year |-> y]
    /\ out = None
    /\ out2 = None

CallFromYearOnly ==
    /\ pc = "start"
    /\ pc' = "converted"
    /\ out' = from_western_year_only(in.year)
    /\ UNCHANGED <<in, out2>>

CallToWesternBack ==
    /\ pc = "converted"
    /\ out.ok
    /\ pc' = "done"
    /\ \E era \in Designators(out) :
        out2' = [era |-> era, ret |-> to_western(era, out.era_year)]
    /\ UNCHANGED <<in, out>>

YearNext == CallFromYearOnly \/ CallToWesternBack

SpecYear == YearInit /\ [][YearNext]_vars

\* C1: for every year y >= MIN_YEAR, to_western on the era (English name,
\* kanji name or code) and era year that from_western_year_only(y)
\* returned succeeds and returns year y
C1_RoundTripYearOnly ==
    /\ pc = "converted" /\ in.year >= MIN_YEAR => out.ok
    /\ pc = "done" => out2.ret.ok /\ out2.ret.year = in.year

\* 1989 went to Heisei 1 and came back from the code "H" as 1989
C1_Witness ==
    /\ pc = "done"
    /\ in.year = 1989
    /\ out.era_year = 1
    /\ out2.era = <<"H">>
    /\ out2.ret.ok
    /\ out2.ret.year = 1989

(***************************************************************************)
(* Specification SpecEra: to_western, then from_western_year_only on the   *)
(* year it returned                                                        *)
(***************************************************************************)

MaxEraYear == 70

\* <<designator, code of the era it names or "none">>
EraInputs ==
    UNION {{<<<<ERAS[i].code>>, ERAS[i].code>>,
            <<ERAS[i].en, ERAS[i].code>>,
            <<ERAS[i].ja, ERAS[i].code>>} : i \in 1..Len(ERAS)}
    \cup {<<<<"X">>, "none">>, <<<<>>, "none">>, <<NoneText, "none">>,
          <<<<"K","e","i","o">>, "none">>}

EraInit ==
    /\ pc = "start"
    /\ \E e \in EraInputs, n \in (0 - YearsBelow)..MaxEraYear :
        in = [era |-> e[1], code |-> e[2], era_year |-> n]
    /\ out = None
    /\ out2 = None

CallToWestern ==
    /\ pc = "start"
    /\ pc' = "converted"
    /\ out' = to_western(in.era, in.era_year)
    /\ UNCHANGED <<in, out2>>

CallFromYearOnlyBack ==
    /\ pc = "converted"
    /\ out.ok
    /\ pc' = "done"
    /\ out2' = from_western_year_only(out.year)
    /\ UNCHANGED <<in, out>>

EraNext == CallToWestern \/ CallFromYearOnlyBack

SpecEra == EraInit /\ [][EraNext]_vars

\* position in ERAS of the era with the given code
EraIndex(code) == CHOOSE i \in 1..Len(ERAS) : ERAS[i].code = code

\* C6: to_western fails whenever era_year < 1, whatever the designator; for
\* era_year >= 1 it fails with the unknown-era error exactly when the
\* designator resolves to no era; otherwise it succeeds with
\* year = start year + era_year - 1 and method "inverse"; the failure
\* "resulting year below minimum" is never raised
C6_ToWestern ==
    pc # "start" =>
        /\ out # Raise("Resulting year is < MIN_YEAR.")
        /\ in.era_year < 1 => out = Raise("Era year must be >= 1.")
        /\ in.era_year >= 1 /\ in.code = "none" => out = Raise("Unknown era.")
        /\ in.era_year >= 1 /\ in.code # "none" =>
            /\ out.ok
            /\ out.year = ERAS[EraIndex(in.code)].start[1] + in.era_year - 1
            /\ out.era_year = in.era_year
            /\ out.method = "inverse"

\* to_western("H", 31) returned 2019
C6_Witness ==
    /\ pc = "converted"
    /\ in.era = <<"H">>
    /\ in.era_year = 31
    /\ out.ok
    /\ out.year = 2019

\* C10: for an era e and an era year n >= 1 with start year of e + n - 1
\* below the start year of the next-newer era (no limit for the newest
\* era), from_western_year_only(to_western(e, n).year) returns e and n;
\* for larger n to_western still succeeds and the year converts back to a
\* newer era
C10_InverseRoundTrip ==
    /\ pc = "converted" /\ in.era_year >= 1 /\ in.code # "none" => out.ok
    /\ pc = "done" =>
        LET i == EraIndex(in.code)
            within == i = 1 \/ ERAS[i].start[1] + in.era_year - 1 < ERAS[i - 1].start[1]
        IN  /\ out2.ok
            /\ within => out2.era_en = ERAS[i].en /\ out2.era_year = in.era_year
            /\ ~within => \E j \in 1..(i - 1) : out2.era_en = ERAS[j].en

\* Showa 63 went to 1988 and came back as Showa 63
C10_Witness ==
    /\ pc = "done"
    /\ in.code = "S"
    /\ in.era_year = 63
    /\ out.year = 1988
    /\ out2.era_en = ERAS[3].en
    /\ out2.era_year = 63

(***************************************************************************)
(* Specification SpecDate: from_western_date on every calendar date of the *)
(* years in range, then from_western_year_only on the date's year          *)
(***************************************************************************)

DateInit ==
    /\ pc = "start"
    /\ \E y \in (MIN_YEAR - YearsBelow)..MaxYear, m \in 1..12, d \in 1..31 :
        /\ IsDate(<<y, m, d>>)
        /\ in = [date |-> <<y, m, d>>]
    /\ out = None
    /\ out2 = None

CallFromDate ==
    /\ pc = "start"
    /\ pc' = "converted"
    /\ out' = from_western_date(in.date)
    /\ UNCHANGED <<in, out2>>

CallFromYearOnlyOfDate ==
    /\ pc = "converted"
    /\ pc' = "done"
    /\ out2' = from_western_year_only(in.date[1])
    /\ UNCHANGED <<in, out>>

DateNext == CallFromDate \/ CallFromYearOnlyOfDate

SpecDate == DateInit /\ [][DateNext]_vars

\* the calendar day before d
PrevDay(d) ==
    IF d[3] > 1 THEN <<d[1], d[2], d[3] - 1>>
    ELSE IF d[2] > 1 THEN <<d[1], d[2] - 1, DaysInMonth(d[1], d[2] - 1)>>
    ELSE <<d[1] - 1, 12, 31>>

\* dates in calendar order, as numbers
DateKey(d) == d[1] * 10000 + d[2] * 100 + d[3]

\* the YYYY-MM-DD text t names the date d
NamesDate(t, d) ==
    /\ Len(t) = 10
    /\ t[5] = "-" /\ t[8] = "-"
    /\ DigitsToInt(SubSeq(t, 1, 4)) = d[1]
    /\ DigitsToInt(SubSeq(t, 6, 7)) = d[2]
    /\ DigitsToInt(SubSeq(t, 9, 10)) = d[3]

\* C2 as stated: for every era of ERAS, the day before its start date
\* resolves to the next-older era, with era_year counted from that era's
\* start year, and the start date resolves to the era itself
C2_BoundaryEveryEra ==
    pc # "start" =>
        \A i \in 1..Len(ERAS) :
            /\ in.date = ERAS[i].start =>
                out.ok /\ out.era_en = ERAS[i].en /\ out.era_year = 1
            /\ in.date = PrevDay(ERAS[i].start) =>
                /\ out.ok
                /\ \E j \in 1..Len(ERAS) :
                    /\ j = i + 1
                    /\ out.era_en = ERAS[j].en
                    /\ out.era_year = in.date[1] - ERAS[j].start[1] + 1

\* C2, amended: for every era of ERAS that has an older era before it, the
\* day before its start date resolves to that next-older era, with
\* era_year counted from the older era's start year; the day before the
\* oldest era's start date is refused ("No matching era found."); the
\* start date of every era resolves to the era itself, with era_year 1
C2_Boundary ==
    pc # "start" =>
        \A i \in 1..Len(ERAS) :
            /\ in.date = ERAS[i].start =>
                out.ok /\ out.era_en = ERAS[i].en /\ out.era_year = 1
            /\ i < Len(ERAS) /\ in.date = PrevDay(ERAS[i].start) =>
                /\ out.ok
                /\ out.era_en = ERAS[i + 1].en
                /\ out.era_year = in.date[1] - ERAS[i + 1].start[1] + 1
            /\ i = Len(ERAS) /\ in.date = PrevDay(ERAS[i].start) =>
                out = Raise("No matching era found.")

\* 1989-01-07, the day before Heisei starts, is Showa 64
C2_Witness ==
    /\ pc = "converted"
    /\ in.date = <<1989, 1, 7>>
    /\ out.ok
    /\ out.era_en = ERAS[3].en
    /\ out.era_year = 64

\* C3: for every era, from_western_date(start date) and
\* from_western_year_only(start year) return the same era and the same
\* era year, and that era year is 1
C3_StartAgreement ==
    pc = "done" =>
        \A i \in 1..Len(ERAS) :
            in.date = ERAS[i].start =>
                /\ out.ok /\ out2.ok
                /\ out.era_en = ERAS[i].en /\ out2.era_en = ERAS[i].en
                /\ out.era_ja = ERAS[i].ja /\ out2.era_ja = ERAS[i].ja
                /\ out.era_year = 1 /\ out2.era_year = 1

\* both conversions of Reiwa's start, 2019-05-01 and 2019, gave Reiwa 1
C3_Witness ==
    /\ pc = "done"
    /\ in.date = <<2019, 5, 1>>
    /\ out.era_en = ERAS[1].en /\ out.era_year = 1
    /\ out2.era_en = ERAS[1].en /\ out2.era_year = 1

\* what C8 says of a date from_western_date accepted
DateResultOf(r, date) ==
    /\ r.ok
    /\ \E i \in 1..Len(ERAS) :
        /\ r.era_en = ERAS[i].en /\ r.era_ja = ERAS[i].ja
        /\ DateKey(ERAS[i].start) <= DateKey(date)
        /\ \A j \in 1..Len(ERAS) :
            DateKey(ERAS[j].start) <= DateKey(date) =>
                DateKey(ERAS[j].start) <= DateKey(ERAS[i].start)
        /\ r.era_year = date[1] - ERAS[i].start[1] + 1
    /\ r.era_year >= 1
    /\ r.year = date[1] /\ r.year >= MIN_YEAR
    /\ r.method = "date"
    /\ NamesDate(r.date_used, date)

\* C8 as stated: from_western_date fails only for a date whose year is
\* below MIN_YEAR; every date of a year >= MIN_YEAR gets the newest era
\* started on or before it, era_year = year - start year + 1 >= 1, the
\* date's year, method "date" and date_used naming the date; "No matching
\* era found." is never raised
C8_FailsOnlyBelowMinYear ==
    pc # "start" =>
        /\ out # Raise("No matching era found.")
        /\ IF in.date[1] < MIN_YEAR
           THEN out = Raise("Year must be >= MIN_YEAR.")
           ELSE DateResultOf(out, in.date)

\* C8, amended: from_western_date fails for a date whose year is below
\* MIN_YEAR and, with "No matching era found.", for a date of the year
\* MIN_YEAR before the oldest era's start date (1868-01-01 .. 1868-01-24);
\* every date on or after the oldest era's start date gets the newest era
\* started on or before it, era_year = year - start year + 1 >= 1, the
\* date's year, method "date" and date_used naming the date
C8_FromDate ==
    pc # "start" =>
        IF in.date[1] < MIN_YEAR
        THEN out = Raise("Year must be >= MIN_YEAR.")
        ELSE IF DateKey(in.date) < DateKey(ERAS[Len(ERAS)].start)
        THEN out = Raise("No matching era found.")
        ELSE DateResultOf(out, in.date)

\* 2019-04-30, the last day before Reiwa, was converted to Heisei 31
C8_Witness ==
    /\ pc = "converted"
    /\ in.date = <<2019, 4, 30>>
    /\ out.ok
    /\ out.era_en = ERAS[2].en
    /\ out.era_year = 31
    /\ out.date_used = <<"2","0","1","9","-","0","4","-","3","0">>

(***************************************************************************)
(* Specification SpecParse: parse_era_year_text on every text of up to     *)
(* MaxTextLen characters over ParseAlphabet                                *)
(***************************************************************************)

MaxTextLen == 4

\* a letter in ASCII and full-width, a kanji, the year-one marker, the year
\* suffix, a space, digits in ASCII, full-width and Arabic-Indic
ParseAlphabet ==
    {"R", "U+FF32", "U+4EE4", Gan, Nen, " ", "0", "7", "U+FF13", "U+0667"}

ParseInit ==
    /\ pc = "start"
    /\ \E n \in 0..MaxTextLen : \E text \in [1..n -> ParseAlphabet] :
        in = [text |-> text]
    /\ out = None
    /\ out2 = None

CallParseEraYearText ==
    /\ pc = "start"
    /\ pc' = "done"
    /\ out' = parse_era_year_text(in.text)
    /\ UNCHANGED <<in, out2>>

ParseNext == CallParseEraYearText

SpecParse == ParseInit /\ [][ParseNext]_vars

\* int(N) of a run of ASCII and full-width digits
RECURSIVE WideDigitsToInt(_)
WideDigitsToInt(s) ==
    IF s = <<>> THEN 0
    ELSE LET c == s[Len(s)]
             d == CHOOSE x \in Digits : x[1] = c \/ x[2] = c
         IN  10 * WideDigitsToInt(SubSeq(s, 1, Len(s) - 1)) + DigitVal(d[1])

\* the texts D+N and D+N+<Nen>: D a non-empty run of non-digits, N a
\* non-empty run of ASCII or full-width digits; the position where D ends
DNSplits(text) ==
    {k \in 1..(Len(text) - 1) :
        /\ NoneIn(SubSeq(text, 1, k), UnicodeDigits)
        /\ \/ AllIn(SubSeq(text, k + 1, Len(text)), AsciiDigits \cup FullWidthDigits)
           \/ /\ text[Len(text)] = Nen
              /\ k + 1 < Len(text)
              /\ AllIn(SubSeq(text, k + 1, Len(text) - 1),
                       AsciiDigits \cup FullWidthDigits)}

DigitRunOf(text, k) ==
    IF text[Len(text)] = Nen THEN SubSeq(text, k + 1, Len(text) - 1)
    ELSE SubSeq(text, k + 1, Len(text))

\* the text D+<Gan><Nen>, D a non-empty run of non-digits
IsGannen(text) ==
    /\ Len(text) >= 3
    /\ text[Len(text) - 1] = Gan /\ text[Len(text)] = Nen
    /\ NoneIn(text, UnicodeDigits)

IsPlain(D) == Strip(D) = D /\ NFKC(D) = D

EraYearTextValues == {
    NoneText, <<>>,
    <<"U+4EE4", "U+548C", "7", Nen>>,
    <<"H", "e", "i", "s", "e", "i", Gan, Nen>>,
    <<"X", "7">>,
    <<"7">> }

NowValues == {NoneText, <<"t","r","u","e">>, <<"Y","E","S">>, <<"0">>}

DateValues == {
    NoneText, <<>>,
    <<"1","9","8","9","-","0","1","-","0","7">>,
    <<"2","0","1","9","-","5","-","1">>,
    <<"1","8","6","8","-","0","1","-","1","0">>,
    <<"1","8","6","7","-","1","2","-","3","1">>,
    <<"2","0","1","9","-","0","2","-","3","0">>,
    <<"t","o","d","a","y">> }

YearValues == {
    NoneText, <<>>, <<"2","0","1","9">>, <<"1","8","6","7">>, <<"x">> }

EraValues == {NoneText, <<>>, <<"R">>, <<"U+662D","U+548C">>, <<"X">>}

EraYearValues == {NoneText, <<>>, <<"7">>, <<"0">>, <<"x">>}

LangValues == {NoneText, <<"j","a">>}

\* the values date.today() may take
TodayValues == {<<2019, 4, 30>>, <<2026, 11, 6>>}

ConvertInit ==
    /\ pc = "start"
    /\ \E t \in EraYearTextValues, n \in NowValues, d \in DateValues,
          y \in YearValues, e \in EraValues, ey \in EraYearValues,
          l \in LangValues :
        in = [era_year_text |-> t, now |-> n, date |-> d, year |-> y,
              era |-> e, era_year |-> ey, lang |-> l]
    /\ out = None
    /\ out2 = None

HandleConvert ==
    /\ pc = "start"
    /\ pc' = "done"
    /\ \E today \in TodayValues : out' = convert(in, today)
    /\ UNCHANGED <<in, out2>>

ConvertNext == HandleConvert

SpecConvert == ConvertInit /\ [][ConvertNext]_vars

\* the modes a request selects: era_year_text; now; date; year; era
\* together with era_year
SelectedModes(data) ==
    {m \in {"era_year_text", "now", "date", "year", "era"} :
        CASE m = "era_year_text" -> Truthy(data.era_year_text)
          [] m = "now" -> data.now # NoneText /\ NowRequested(data.now)
          [] m = "date" -> Truthy(data.date)
          [] m = "year" -> Truthy(data.year)
          [] m = "era" -> Truthy(data.era) /\ Truthy(data.era_year)}

\* C7: a request is converted only when exactly one mode is selected: a
\* request selecting several modes, or none, gets the error envelope
C7_ExactlyOneMode ==
    pc = "done" /\ Cardinality(SelectedModes(in)) # 1 =>
        out.status = "ERROR" /\ out.http = 400

====
